---- MODULE Spec2Model ----
(***************************************************************************)
(* Model of the DeepStream-Yolo custom output parsers of SqueakView:       *)
(*   nvdsinfer_custom_impl_Yolo/yolo_obb_parser.cpp   (oriented boxes)     *)
(*   nvdsinfer_custom_impl_Yolo/yolo_pose_parser.cpp  (pose, legacy and    *)
(*                                                     compact "yolo26")   *)
(*                                                                         *)
(* Numbers.  The parsers work on 32-bit floats; the model uses fixed-point *)
(* integers.  A coordinate is a count of half pixels (PX units make one    *)
(* pixel; tensors hold whole pixels, so 0.5f*w is exact).  A probability,  *)
(* an angle and the compact class-id field are counts of 1/Q.  NaN and     *)
(* infinities are outside the model.                                       *)
(***************************************************************************)
EXTENDS Integers, Sequences, FiniteSets, TLC

VARIABLES
  \* ---- one parser call (single-threaded view)
  entry,          \* the entry point of the last call, "none" before the first
  layers,         \* its outputLayersInfo
  net,            \* its NvDsInferNetworkInfo
  params,         \* its NvDsInferParseDetectionParams
  env,            \* SQUEAKVIEW_SRC_W / SQUEAKVIEW_SRC_H, each set or unset
  rowres,         \* per tensor row, what the decode loop made of it
  dets,           \* the local `dets` after std::sort (compact: in row order)
  rem,            \* the local `rem` of the suppressor when the loop ends
  objects,        \* the caller's output list
  ret,            \* what the last call returned: "true", "false"; "none" before it
  reads,          \* history: the element indices (from 0) it read in L.buffer
  \* ---- process-wide state
  g_pose_cache,   \* seq, kpts, flat (the mutex is `mtx`)
  mtx,            \* owner of g_pose_cache.mtx, 0 when free
  dbg_geom,       \* static bool of decode()
  debug_raw_printed,
  debug_det_printed,
  \* ---- threads (concurrent view)
  pc,             \* per thread, where it stands
  tl,             \* per thread, the locals of its running call
  got,            \* per thread, what its last accessor call returned
  updates         \* history: per completed cache update, what it stored

vars == <<entry, layers, net, params, env, rowres, dets, rem, objects, ret, reads,
          g_pose_cache, mtx, dbg_geom, debug_raw_printed, debug_det_printed,
          pc, tl, got, updates>>

callVars ==
  <<entry, layers, net, params, env, rowres, dets, rem, objects, ret, reads>>
threadVars == <<mtx, dbg_geom, debug_raw_printed, debug_det_printed, pc, tl, got>>

(***************************************************************************)
(* Fixed point and program constants                                       *)
(***************************************************************************)
Q == 10000                 \* 1.f for probabilities and angles
PX == 2                    \* 1.f for coordinates (half-pixel units)
conf_thr == 2500           \* 0.25f
iou_thr == 4500            \* 0.45f
ThetaLimit == 35000        \* 3.5f
ObjLimit == 10001          \* 1.0001f
max_kpts == 50
kBaseValuesPerDet == 5
MinPoseDim == 8            \* 5 + 3

(***************************************************************************)
(* Bounds of the model                                                     *)
(***************************************************************************)
NetDim == 16               \* network input width and height, in pixels
MaxPreds == 3              \* rows drawn freely from a catalogue per tensor
MaxSeq == 2                \* cache updates per behaviour
NThreads == 2              \* threads of the concurrent view

Min(a, b) == IF a < b THEN a ELSE b
Max(a, b) == IF a > b THEN a ELSE b
fabs(v) == IF v < 0 THEN -v ELSE v
FMul(a, b) == (a * b) \div Q
Half(v) == v \div 2

clampf(v, lo, hi) == Min(Max(v, lo), hi)

\* std::lround of a 1/Q fixed-point value: nearest integer, halves away from zero
lround(v) == IF v >= 0 THEN (2 * v + Q) \div (2 * Q)
             ELSE -((2 * (-v) + Q) \div (2 * Q))

NoDet == [ok |-> FALSE]

\* p[c] of a row that starts at element `base` of the buffer
\* the element `c` places after `base`; the model's buffers hold exactly the
\* declared elements, and `reads` records every index, inside or not
At(data, base, c) == IF base + c + 1 \in DOMAIN data THEN data[base + c + 1] ELSE 0

(***************************************************************************)
(* Intersection over union.  The value is kept as the pair                 *)
(* <<inter, areaA + areaB - inter>>; the comparison adds the 1e-6f.        *)
(***************************************************************************)
IouOf(ax1, ay1, ax2, ay2, bx1, by1, bx2, by2) ==
  LET xx1 == Max(ax1, bx1)  yy1 == Max(ay1, by1)
      xx2 == Min(ax2, bx2)  yy2 == Min(ay2, by2)
      w == Max(0, xx2 - xx1)  h == Max(0, yy2 - yy1)
      inter == w * h
      areaA == Max(0, ax2 - ax1) * Max(0, ay2 - ay1)
      areaB == Max(0, bx2 - bx1) * Max(0, by2 - by1)
  IN <<inter, areaA + areaB - inter>>

\* inter / (uni + 1e-6f) > thr.  inter, uni and thr*uni/Q are exact here, and
\* 0 < thr * 1e-6 < 1/Q, so the quotient exceeds thr exactly when
\* inter * Q > thr * uni; with uni = 0 the quotient is 0 / 1e-6 = 0.
IouMutGe(iou, thr) == iou[1] * Q >= thr * iou[2]
IouGt(iou, thr) == iou[1] * Q > thr * iou[2]

iou_aabb(a, b) ==
  IouOf(a.cx - Half(a.w), a.cy - Half(a.h), a.cx + Half(a.w), a.cy + Half(a.h),
        b.cx - Half(b.w), b.cy - Half(b.h), b.cx + Half(b.w), b.cy + Half(b.h))

iou_xyxy(a, b) == IouOf(a.x1, a.y1, a.x2, a.y2, b.x1, b.y1, b.x2, b.y2)

(***************************************************************************)
(* std::sort by confidence, descending.  std::sort is not stable: any      *)
(* arrangement in which the comparator holds for no later-before-earlier   *)
(* pair is a possible result.                                              *)
(***************************************************************************)
Perms(n) == {p \in [1..n -> 1..n] : \A i, j \in 1..n : i # j => p[i] # p[j]}

SortOutcomes(s) ==
  {[i \in 1..Len(s) |-> s[p[i]]] :
     p \in {q \in Perms(Len(s)) :
              \A i, j \in 1..Len(s) : i < j => ~(s[q[j]].conf > s[q[i]].conf)}}

\* the accepted rows, in row order: the local `dets` before the sort
Accepted(rr) ==
  LET RECURSIVE F(_)
      F(i) == IF i > Len(rr) THEN <<>>
              ELSE IF rr[i].ok THEN <<rr[i].det>> \o F(i + 1) ELSE F(i + 1)
  IN F(1)

\* the kept detections: dets[i] with rem[i] = 0, in order
Kept(ds, rm) ==
  LET RECURSIVE F(_)
      F(i) == IF i > Len(ds) THEN <<>>
              ELSE IF rm[i] THEN F(i + 1) ELSE <<ds[i]>> \o F(i + 1)
  IN F(1)

(***************************************************************************)
(* Layer selection: the first FLOAT layer, else layers[0]                  *)
(***************************************************************************)
SelectLayer(ls) ==
  LET RECURSIVE F(_)
      F(i) == IF i > Len(ls) THEN ls[1]
              ELSE IF ls[i].dataType = "FLOAT" THEN ls[i] ELSE F(i + 1)
  IN F(1)

(***************************************************************************)
(* Class picking, the same loop in decode_one and decode: bestId = 0 and   *)
(* bestSc = 1 unless nc > 1, and then the first strictly greatest score    *)
(* above 0.  Score c is element base + c*step of the buffer; it is read    *)
(* only when nc > 1.                                                       *)
(***************************************************************************)
BestClass(nc, data, base, step) ==
  IF nc > 1
  THEN LET RECURSIVE F(_, _, _)
           F(c, bestId, bestSc) ==
             IF c >= nc THEN <<bestId, bestSc>>
             ELSE IF At(data, base, c * step) > bestSc
                  THEN F(c + 1, c, At(data, base, c * step))
                  ELSE F(c + 1, bestId, bestSc)
       IN F(0, 0, 0)
  ELSE <<0, Q>>

(***************************************************************************)
(* yolo_obb_parser.cpp                                                     *)
(***************************************************************************)
\* which of p[4], p[5] is theta and which is obj: <<theta, obj>>
ObbSelectMutSwap(p4, p5) ==
  LET layout0 == fabs(p4) <= ThetaLimit /\ p5 >= 0 /\ p5 <= ObjLimit
      layout1 == fabs(p5) <= ThetaLimit /\ p4 >= 0 /\ p4 <= ObjLimit
  IN IF layout1 THEN <<p5, p4>> ELSE <<p4, p5>>
ObbSelect(p4, p5) ==
  LET layout0 == fabs(p4) <= ThetaLimit /\ p5 >= 0 /\ p5 <= ObjLimit
      layout1 == fabs(p5) <= ThetaLimit /\ p4 >= 0 /\ p4 <= ObjLimit
  IN IF layout0 /\ ~layout1 THEN <<p4, p5>>
     ELSE IF layout1 /\ ~layout0 THEN <<p5, p4>>
     ELSE <<p4, p5>>

decode_one(data, base, D, nc, inW, inH, thr) ==
  IF D < 6 + nc THEN NoDet
  ELSE
    LET p(c) == At(data, base, c)
        sel == ObbSelect(p(4), p(5))
        theta == sel[1]
        obj == sel[2]
        best == BestClass(nc, data, base + 6, 1)
        conf == FMul(obj, best[2])
    IN IF obj < thr THEN NoDet
       ELSE IF conf < thr THEN NoDet
       ELSE [ok |-> TRUE,
             det |-> [cx |-> clampf(p(0), 0, inW - PX),
                      cy |-> clampf(p(1), 0, inH - PX),
                      w |-> Max(0, Min(fabs(p(2)), inW)),
                      h |-> Max(0, Min(fabs(p(3)), inH)),
                      theta |-> theta, conf |-> conf, cls |-> best[1]]]

\* the indices decode_one reads for the row at `base`
ObbRowReads(data, base, D, nc, thr) ==
  IF D < 6 + nc THEN {}
  ELSE {base + c : c \in 0..5}
       \cup (IF ObbSelect(At(data, base, 4), At(data, base, 5))[2] >= thr /\ nc > 1
             THEN {base + 6 + c : c \in 0..(nc - 1)} ELSE {})

\* decode_all up to the loop: the buffer check and N, D, nc
ObbLayout(L) ==
  IF ~L.hasBuffer THEN [ok |-> FALSE]
  ELSE IF L.numDims = 2 THEN [ok |-> TRUE, N |-> L.d[1], D |-> L.d[2]]
  ELSE IF L.numDims = 3 THEN [ok |-> TRUE, N |-> L.d[2], D |-> L.d[3]]
  ELSE [ok |-> FALSE]

ObbClassCount(D) == IF D - 6 < 1 THEN 1 ELSE D - 6

\* decode_all's loop over the rows
ObbRows(L, n, lay) ==
  [i \in 1..Max(0, lay.N) |->
     decode_one(L.data, (i - 1) * lay.D, lay.D, ObbClassCount(lay.D),
                n.width * PX, n.height * PX, conf_thr)]

ObbReads(L, lay) ==
  UNION {ObbRowReads(L.data, i * lay.D, lay.D, ObbClassCount(lay.D), conf_thr) :
           i \in 0..(lay.N - 1)}

\* the suppressor of decode_all: the final `rem`
NmsObb(ds, thr) ==
  LET RECURSIVE Loop(_, _)
      Loop(i, rm) ==
        IF i > Len(ds) THEN rm
        ELSE IF rm[i] THEN Loop(i + 1, rm)
        ELSE Loop(i + 1, [j \in 1..Len(ds) |->
                            rm[j] \/ (j > i /\ IouGt(iou_aabb(ds[i], ds[j]), thr))])
  IN Loop(1, [j \in 1..Len(ds) |-> FALSE])

\* parse_obb_internal's conversion of one kept detection
ObbObject(d) ==
  [classId |-> d.cls, detectionConfidence |-> d.conf,
   left |-> d.cx - Half(d.w), top |-> d.cy - Half(d.h),
   width |-> Max(0, d.w), height |-> Max(0, d.h)]

(***************************************************************************)
(* yolo_pose_parser.cpp: the result cache                                  *)
(***************************************************************************)
\* what update_pose_cache appends to flat for one detection
FlatOf(d) == <<d.x1, d.y1, d.x2, d.y2, d.conf>> \o d.kpts

Flatten(ds) ==
  LET RECURSIVE F(_)
      F(i) == IF i > Len(ds) THEN <<>> ELSE FlatOf(ds[i]) \o F(i + 1)
  IN F(1)

\* update_pose_cache as one step (the lock is held throughout)
update_pose_cache(cache, ds, kpts) ==
  [seq |-> cache.seq + 1, kpts |-> kpts, flat |-> Flatten(ds)]

(***************************************************************************)
(* The letterbox.  gain is the fraction g[1]/g[2]; Pad2 is 2*g[2] times    *)
(* the padding, so that (x - pad)/gain = (2*g[2]*x - Pad2) / (2*g[1]).     *)
(* The quotient is rounded down to the coordinate unit.                    *)
(***************************************************************************)
env_or_default(v, fallback) == IF v.set THEN v.val * PX ELSE fallback

Gain(inW, inH, src_w, src_h) ==
  IF inW * src_h <= inH * src_w THEN <<inW, src_w>> ELSE <<inH, src_h>>

Pad2(inDim, srcDim, g) == inDim * g[2] - srcDim * g[1]

Geometry(n, e) ==
  LET inW == n.width * PX
      inH == n.height * PX
      src_w == env_or_default(e.w, inW)
      src_h == env_or_default(e.h, inH)
      g == Gain(inW, inH, src_w, src_h)
  IN [inW |-> inW, inH |-> inH, src_w |-> src_w, src_h |-> src_h, gain |-> g,
      pad_x2 |-> Pad2(inW, src_w, g), pad_y2 |-> Pad2(inH, src_h, g)]

unletterboxMutNoClamp(x, y, geo) ==
  << (2 * geo.gain[2] * x - geo.pad_x2) \div (2 * geo.gain[1]),
     (2 * geo.gain[2] * y - geo.pad_y2) \div (2 * geo.gain[1]) >>
unletterbox(x, y, geo) ==
  << Min(Max((2 * geo.gain[2] * x - geo.pad_x2) \div (2 * geo.gain[1]), 0),
         geo.src_w - PX),
     Min(Max((2 * geo.gain[2] * y - geo.pad_y2) \div (2 * geo.gain[1]), 0),
         geo.src_h - PX) >>

\* the keypoints of one row: element base + c*step is field c after the
\* fixed fields; x and y go through the letterbox, the score is copied
Keypoints(data, base, step, kpts, geo) ==
  LET RECURSIVE F(_)
      F(k) == IF k >= kpts THEN <<>>
              ELSE LET kxy == unletterbox(At(data, base, (3 * k) * step),
                                          At(data, base, (3 * k + 1) * step), geo)
                   IN <<kxy[1], kxy[2], At(data, base, (3 * k + 2) * step)>>
                      \o F(k + 1)
  IN F(0)

\* parse_pose_internal's and decode_yolo26_pose's conversion of a detection
PoseObject(d) ==
  [classId |-> d.cls, detectionConfidence |-> d.conf,
   left |-> d.x1, top |-> d.y1,
   width |-> Max(0, d.x2 - d.x1), height |-> Max(0, d.y2 - d.y1)]

(***************************************************************************)
(* yolo_pose_parser.cpp: decode (legacy convention)                        *)
(***************************************************************************)
PoseLayout(L) ==
  IF ~L.hasBuffer THEN [ok |-> FALSE]
  ELSE IF L.numDims = 2
  THEN IF L.d[1] < L.d[2]
       THEN [ok |-> TRUE, dim |-> L.d[1], num_preds |-> L.d[2],
             channel_major |-> TRUE, stride |-> L.d[2]]
       ELSE [ok |-> TRUE, dim |-> L.d[2], num_preds |-> L.d[1],
             channel_major |-> FALSE, stride |-> L.d[2]]
  ELSE IF L.numDims = 3
  THEN [ok |-> TRUE, dim |-> L.d[2], num_preds |-> L.d[3],
        channel_major |-> TRUE, stride |-> L.d[3]]
  ELSE [ok |-> FALSE]

\* the scan for (nc, kpts) with dim = 5 + nc + 3*kpts
InferSchemaMutLargest(dim) ==
  LET RECURSIVE F(_, _, _)
      F(guess_k, fallback_nc, fallback_k) ==
        IF guess_k > max_kpts
        THEN IF fallback_nc < 0 THEN [ok |-> FALSE]
             ELSE [ok |-> TRUE, nc |-> fallback_nc, kpts |-> fallback_k]
        ELSE LET r == dim - 5 - 3 * guess_k
             IN IF r < 0 THEN F(guess_k + 1, fallback_nc, fallback_k)
                ELSE IF r = 0 THEN [ok |-> TRUE, nc |-> 0, kpts |-> guess_k]
                ELSE F(guess_k + 1, r, guess_k)
  IN IF dim < MinPoseDim THEN [ok |-> FALSE] ELSE F(1, -1, 0)
InferSchema(dim) ==
  LET RECURSIVE F(_, _, _)
      F(guess_k, fallback_nc, fallback_k) ==
        IF guess_k > max_kpts
        THEN IF fallback_nc < 0 THEN [ok |-> FALSE]
             ELSE [ok |-> TRUE, nc |-> fallback_nc, kpts |-> fallback_k]
        ELSE LET r == dim - 5 - 3 * guess_k
             IN IF r < 0 THEN F(guess_k + 1, fallback_nc, fallback_k)
                ELSE IF r = 0 THEN [ok |-> TRUE, nc |-> 0, kpts |-> guess_k]
                ELSE IF fallback_nc < 0 THEN F(guess_k + 1, r, guess_k)
                ELSE F(guess_k + 1, fallback_nc, fallback_k)
  IN IF dim < MinPoseDim THEN [ok |-> FALSE] ELSE F(1, -1, 0)

\* one pass of decode's loop, row i (from 0)
\* where row i (from 0) starts and how far apart its fields are: the copy
\* row[c] = data[c*stride + i], or p = data + i*dim
PoseBase(i, lay) == IF lay.channel_major THEN i ELSE i * lay.dim
PoseStepMutDim(lay) == IF lay.channel_major THEN lay.dim ELSE 1
PoseStep(lay) == IF lay.channel_major THEN lay.stride ELSE 1

\* the indices one pass of decode()'s loop reads for row i (from 0); `first`:
\* debug_raw_printed is still false
PoseRowReads(data, i, lay, sch, geo, thr, first) ==
  LET base == PoseBase(i, lay)
      step == PoseStep(lay)
      Fields(lo, hi) == {base + c * step : c \in lo..hi}
      obj == At(data, base, 4 * step)
      best == BestClass(sch.nc, data, base + 5 * step, step)
  IN IF lay.channel_major THEN Fields(0, lay.dim - 1)
     ELSE Fields(0, 4)
          \cup (IF first THEN Fields(0, Min(lay.dim, 32) - 1) ELSE {})
          \cup (IF obj >= thr /\ sch.nc > 1 THEN Fields(5, 5 + sch.nc - 1) ELSE {})
          \cup (IF obj >= thr /\ FMul(obj, best[2]) >= thr
                THEN Fields(5 + sch.nc, 5 + sch.nc + 3 * sch.kpts - 1) ELSE {})

PoseReads(L, lay, sch, geo) ==
  UNION {PoseRowReads(L.data, i, lay, sch, geo, conf_thr, i = 0) :
           i \in 0..(lay.num_preds - 1)}

PoseRow(data, i, lay, sch, geo, thr) ==
  LET base == PoseBase(i, lay)
      step == PoseStep(lay)
      p(c) == At(data, base, c * step)
      cx == p(0)  cy == p(1)  w == p(2)  h == p(3)  obj == p(4)
      best == BestClass(sch.nc, data, base + 5 * step, step)
      conf == FMul(obj, best[2])
      xyxy == (w > geo.inW) \/ (h > geo.inH) \/ (cx > geo.inW) \/ (cy > geo.inH)
      c1 == IF xyxy THEN unletterbox(cx, cy, geo)
            ELSE unletterbox(cx - Half(w), cy - Half(h), geo)
      c2 == IF xyxy THEN unletterbox(w, h, geo)
            ELSE unletterbox(cx + Half(w), cy + Half(h), geo)
  IN IF obj < thr THEN NoDet
     ELSE IF conf < thr THEN NoDet
     ELSE [ok |-> TRUE,
           det |-> [x1 |-> c1[1], y1 |-> c1[2], x2 |-> c2[1], y2 |-> c2[2],
                    conf |-> conf, cls |-> best[1],
                    kpts |-> Keypoints(data, base + (5 + sch.nc) * step, step,
                                       sch.kpts, geo)]]

PoseRows(L, lay, sch, geo) ==
  [i \in 1..Max(0, lay.num_preds) |-> PoseRow(L.data, i - 1, lay, sch, geo, conf_thr)]

\* the suppressor of decode: the final `rem`
NmsPose(ds, thr) ==
  LET RECURSIVE Loop(_, _)
      Loop(i, rm) ==
        IF i > Len(ds) THEN rm
        ELSE IF rm[i] THEN Loop(i + 1, rm)
        ELSE Loop(i + 1, [j \in 1..Len(ds) |->
                            rm[j] \/ (j > i /\ IouGt(iou_xyxy(ds[i], ds[j]), thr))])
  IN Loop(1, [j \in 1..Len(ds) |-> FALSE])

(***************************************************************************)
(* yolo_pose_parser.cpp: decode_yolo26_pose (compact convention)           *)
(***************************************************************************)
stride_matches(d) == d >= 6 /\ (d - 6) % 3 = 0

Yolo26Layout(L) ==
  IF ~L.hasBuffer THEN [ok |-> FALSE]
  ELSE IF L.numDims = 2
  THEN IF stride_matches(L.d[2])
       THEN [ok |-> TRUE, num_preds |-> L.d[1], stride |-> L.d[2],
             channel_major |-> FALSE]
       ELSE IF stride_matches(L.d[1])
       THEN [ok |-> TRUE, num_preds |-> L.d[2], stride |-> L.d[1],
             channel_major |-> TRUE]
       ELSE [ok |-> FALSE]
  ELSE IF L.numDims = 3
  THEN IF stride_matches(L.d[3])
       THEN [ok |-> TRUE, num_preds |-> L.d[2], stride |-> L.d[3],
             channel_major |-> FALSE]
       ELSE IF stride_matches(L.d[2])
       THEN [ok |-> TRUE, num_preds |-> L.d[3], stride |-> L.d[2],
             channel_major |-> TRUE]
       ELSE [ok |-> FALSE]
  ELSE [ok |-> FALSE]

class_thresholdMutFallback(prm, cls, fallback) ==
  IF cls >= 0 /\ cls < Len(prm.perClassPreclusterThreshold)
  THEN prm.perClassPreclusterThreshold[cls + 1]
  ELSE fallback
class_threshold(prm, cls, fallback) ==
  IF cls >= 0 /\ cls < Len(prm.perClassPreclusterThreshold)
  THEN prm.perClassPreclusterThreshold[cls + 1]
  ELSE IF Len(prm.perClassPreclusterThreshold) # 0
  THEN prm.perClassPreclusterThreshold[1]
  ELSE fallback

\* one pass of decode_yolo26_pose's loop, row i (from 0)
Yolo26Row(data, i, lay, kpts, prm, geo, thr) ==
  LET base == IF lay.channel_major THEN i ELSE i * lay.stride
      step == IF lay.channel_major THEN lay.num_preds ELSE 1
      p(c) == At(data, base, c * step)
      obj == p(4)
      cls == lround(p(5))
      c1 == unletterbox(p(0), p(1), geo)
      c2 == unletterbox(p(2), p(3), geo)
  IN IF cls < 0 THEN NoDet
     ELSE IF prm.numClassesConfigured > 0 /\ cls >= prm.numClassesConfigured
     THEN NoDet
     ELSE IF obj < class_threshold(prm, cls, thr) THEN NoDet
     ELSE [ok |-> TRUE,
           det |-> [x1 |-> Min(c1[1], c2[1]), y1 |-> Min(c1[2], c2[2]),
                    x2 |-> Max(c1[1], c2[1]), y2 |-> Max(c1[2], c2[2]),
                    conf |-> obj, cls |-> cls,
                    kpts |-> Keypoints(data, base + 6 * step, step, kpts, geo)]]

\* the indices one pass of decode_yolo26_pose's loop reads for row i (from 0)
Yolo26RowReads(data, i, lay, kpts, prm, geo, thr) ==
  LET base == IF lay.channel_major THEN i ELSE i * lay.stride
      step == IF lay.channel_major THEN lay.num_preds ELSE 1
      Fields(lo, hi) == {base + c * step : c \in lo..hi}
  IN IF lay.channel_major THEN Fields(0, lay.stride - 1)
     ELSE Fields(0, 5)
          \cup (IF Yolo26Row(data, i, lay, kpts, prm, geo, thr).ok
                THEN Fields(6, 6 + 3 * kpts - 1) ELSE {})

Yolo26Reads(L, lay, prm, geo) ==
  UNION {Yolo26RowReads(L.data, i, lay, (lay.stride - 6) \div 3, prm, geo, conf_thr) :
           i \in 0..(lay.num_preds - 1)}

Yolo26Rows(L, lay, prm, geo) ==
  [i \in 1..Max(0, lay.num_preds) |->
     Yolo26Row(L.data, i - 1, lay, (lay.stride - 6) \div 3, prm, geo, conf_thr)]

(***************************************************************************)
(* Inputs.  A tensor is built from logical candidates: a box, the two      *)
(* fields after it, class scores and keypoint triples, of which a schema   *)
(* (nc, k) takes the first nc scores and the first k triples.              *)
(***************************************************************************)
px(v) == v * PX

\* the row of candidate c with `nc` class scores and `k` keypoints
RowOf(c, nc, k) ==
  c.head \o SubSeq(c.scores, 1, nc) \o SubSeq(c.kp, 1, 3 * k)

\* the buffer of N rows of D fields, candidate-major or field-major
Encode(rows, D, fieldMajor) ==
  LET N == Len(rows)
  IN [idx \in 1..(N * D) |->
        IF fieldMajor
        THEN rows[((idx - 1) % N) + 1][((idx - 1) \div N) + 1]
        ELSE rows[((idx - 1) \div D) + 1][((idx - 1) % D) + 1]]

\* the layer declaring `rows` (each of D fields) at the given rank and layout
Tensor(rows, D, rank, fieldMajor) ==
  [dataType |-> "FLOAT", hasBuffer |-> TRUE,
   data |-> Encode(rows, D, fieldMajor),
   numDims |-> rank,
   d |-> IF rank = 2
         THEN (IF fieldMajor THEN <<D, Len(rows), 0>> ELSE <<Len(rows), D, 0>>)
         ELSE (IF fieldMajor THEN <<1, D, Len(rows)>> ELSE <<1, Len(rows), D>>)]

\* a layer of zeros with arbitrary declared dimensions
ZeroLayer(rank, d, hasBuffer, dataType) ==
  [dataType |-> dataType, hasBuffer |-> hasBuffer,
   data |-> IF ~hasBuffer THEN <<>>
            ELSE IF rank = 2 THEN [i \in 1..(d[1] * d[2]) |-> 0]
            ELSE IF rank = 3 THEN [i \in 1..(d[2] * d[3]) |-> 0]
            ELSE [i \in 1..d[1] |-> 0],
   numDims |-> rank, d |-> d]

\* sequences over S of length at most n
SeqsUpTo(S, n) == UNION {[1..m -> S] : m \in 0..n}

NetInfo == [width |-> NetDim, height |-> NetDim]
NoParams == [numClassesConfigured |-> 0, perClassPreclusterThreshold |-> <<>>]
EnvUnset == [w |-> [set |-> FALSE, val |-> 0], h |-> [set |-> FALSE, val |-> 0]]
EnvWide == [w |-> [set |-> TRUE, val |-> 2 * NetDim],
            h |-> [set |-> TRUE, val |-> NetDim]]

Kp == <<px(3), px(5), 9000, px(20), px(6), 1000>>

\* layers that every entry point refuses, and layer lists with a non-FLOAT layer
BadLayers ==
  { <<>>,
    <<ZeroLayer(2, <<2, 9, 0>>, FALSE, "FLOAT")>>,
    <<ZeroLayer(1, <<9, 0, 0>>, TRUE, "FLOAT")>>,
    <<ZeroLayer(4, <<9, 0, 0>>, TRUE, "FLOAT")>> }

\* ---- oriented boxes: head = cx, cy, w, h, p[4], p[5]
ObbBoxA == <<px(4), px(4), px(6), px(6)>>
ObbCat ==
  { [head |-> ObbBoxA \o <<5000, 9000>>, scores |-> <<8000, 3000, 1000>>, kp |-> Kp],
    [head |-> <<px(4), px(4), px(6), px(8), 20000, 9000>>,
     scores |-> <<3000, 8000, 1000>>, kp |-> Kp],
    [head |-> <<px(5), px(6), px(8), px(10), 8000, -10000>>,
     scores |-> <<8000, 8000, 0>>, kp |-> Kp],
    [head |-> <<px(12), px(12), -px(4), px(20), 5000, 3000>>,
     scores |-> <<9000, 0, 0>>, kp |-> Kp],
    [head |-> ObbBoxA \o <<5000, 9000>>, scores |-> <<2000, 1000, 0>>, kp |-> Kp] }

AngleObjValues ==
  {-35001, -35000, -1, 0, 2400, 9000, 10001, 10002, 35000, 35001}

ObbSweep ==
  { [head |-> ObbBoxA \o <<p4, p5>>, scores |-> <<8000, 3000, 1000>>, kp |-> Kp] :
      p4 \in AngleObjValues, p5 \in AngleObjValues }

ObbStrides == {6, 7, 8, 9}

\* two boxes that do not overlap and have the same confidence
ObbTie ==
  << [head |-> ObbBoxA \o <<5000, 9000>>, scores |-> <<8000, 3000, 1000>>, kp |-> Kp],
     [head |-> <<px(12), px(12), px(4), px(4), 1000, 9000>>,
      scores |-> <<8000, 3000, 1000>>, kp |-> Kp] >>

ObbInputs ==
  { [layers |-> <<Tensor([i \in 1..Len(cs) |-> RowOf(cs[i], 2, 0)], 8, rank, FALSE)>>,
     params |-> NoParams, env |-> EnvUnset] :
      cs \in SeqsUpTo(ObbCat, MaxPreds), rank \in {2, 3} }
  \cup
  { [layers |-> <<Tensor(<<RowOf(c, D - 6, 0)>>, D, 3, FALSE)>>,
     params |-> NoParams, env |-> EnvUnset] :
      c \in ObbSweep, D \in {7, 8} }
  \cup
  { [layers |-> <<Tensor([i \in 1..2 |-> RowOf(c, D - 6, 0)], D, 2, FALSE)>>,
     params |-> NoParams, env |-> EnvUnset] :
      c \in ObbCat, D \in ObbStrides }
  \cup
  { [layers |-> <<Tensor([i \in 1..2 |-> RowOf(ObbTie[i], 2, 0)], 8, rank, FALSE)>>,
     params |-> NoParams, env |-> EnvUnset] : rank \in {2, 3} }
  \cup
  { [layers |-> <<ZeroLayer(2, <<2, 8, 0>>, FALSE, "INT8"),
                  Tensor(<<RowOf(c, 2, 0)>>, 8, 2, FALSE)>>,
     params |-> NoParams, env |-> EnvUnset] : c \in ObbCat }
  \cup
  { [layers |-> ls, params |-> NoParams, env |-> EnvUnset] : ls \in BadLayers }

\* ---- pose, legacy convention: head = cx, cy, w, h, obj
PoseCat ==
  { [head |-> <<px(4), px(4), px(6), px(6), 9000>>,
     scores |-> <<8000, 3000, 1000>>, kp |-> Kp],
    [head |-> <<px(4), px(4), px(6), px(8), 9000>>,
     scores |-> <<3000, 8000, 1000>>, kp |-> Kp],
    [head |-> <<px(5), px(6), px(8), px(10), 8000>>,
     scores |-> <<8000, 8000, 0>>, kp |-> Kp],
    [head |-> <<px(12), px(12), px(4), px(4), 3000>>,
     scores |-> <<9000, 0, 0>>, kp |-> Kp],
    [head |-> <<px(4), px(4), px(6), px(6), 9000>>,
     scores |-> <<2000, 1000, 0>>, kp |-> Kp] }

\* rows whose box is not an ordinary center+size one: negative width, corner
\* pairs (a value beyond the network size), corners in reversed order, and
\* values outside the frame
PoseBoxCat ==
  { [head |-> <<px(8), px(8), -px(4), px(4), 9000>>,
     scores |-> <<8000, 3000, 1000>>, kp |-> Kp],
    [head |-> <<px(2), px(3), px(20), px(10), 9000>>,
     scores |-> <<8000, 3000, 1000>>, kp |-> Kp],
    [head |-> <<px(20), px(10), px(2), px(4), 9000>>,
     scores |-> <<8000, 3000, 1000>>, kp |-> Kp],
    [head |-> <<-px(3), px(14), px(8), px(10), 9000>>,
     scores |-> <<8000, 3000, 1000>>, kp |-> <<-px(2), px(40), -500, px(9), px(9), 0>>] }

\* two boxes that do not overlap and have the same confidence
PoseTie ==
  << [head |-> <<px(4), px(4), px(6), px(6), 9000>>,
      scores |-> <<8000, 3000, 1000>>, kp |-> Kp],
     [head |-> <<px(12), px(12), px(4), px(4), 9000>>,
      scores |-> <<3000, 8000, 1000>>, kp |-> Kp] >>

\* the schema a tensor of this many fields is built with: <<nc, k>>
PoseSchemaOf(dim) ==
  IF dim = 8 THEN <<0, 1>> ELSE IF dim = 9 THEN <<1, 1>>
  ELSE IF dim = 10 THEN <<2, 1>> ELSE <<0, 2>>

PoseTensor(cs, dim, rank, fieldMajor, pad) ==
  Tensor([i \in 1..(Len(cs) + pad) |->
            IF i <= Len(cs)
            THEN RowOf(cs[i], PoseSchemaOf(dim)[1], PoseSchemaOf(dim)[2])
            ELSE [c \in 1..dim |-> 0]],
         dim, rank, fieldMajor)

\* rows of zeros appended so that a rank-2 tensor has more rows than fields
PadRows == 10

PoseInputs ==
  { [layers |-> <<PoseTensor(cs, 10, 3, TRUE, 0)>>, params |-> NoParams, env |-> e] :
      cs \in SeqsUpTo(PoseCat, MaxPreds), e \in {EnvUnset, EnvWide} }
  \cup
  { [layers |-> <<PoseTensor(cs, dim, 3, TRUE, 0)>>, params |-> NoParams,
     env |-> EnvUnset] :
      cs \in SeqsUpTo(PoseCat, 2), dim \in {8, 9, 11} }
  \cup
  { [layers |-> <<PoseTensor(cs, 10, 2, fm, PadRows)>>, params |-> NoParams,
     env |-> EnvUnset] :
      cs \in [1..2 -> PoseCat], fm \in BOOLEAN }
  \cup
  { [layers |-> <<PoseTensor(<<c>>, 10, rank, FALSE, 0)>>, params |-> NoParams,
     env |-> EnvUnset] : c \in PoseCat, rank \in {2, 3} }
  \cup
  { [layers |-> <<PoseTensor(PoseTie, dim, 3, TRUE, 0)>>, params |-> NoParams,
     env |-> EnvUnset] : dim \in {8, 10} }
  \cup
  { [layers |-> <<PoseTensor(<<c>>, dim, 3, TRUE, 0)>>, params |-> NoParams,
     env |-> e] : c \in PoseBoxCat, dim \in {10, 11}, e \in {EnvUnset, EnvWide} }
  \cup
  { [layers |-> <<ZeroLayer(3, <<1, dim, 1>>, TRUE, "FLOAT")>>, params |-> NoParams,
     env |-> EnvUnset] : dim \in 0..(5 + 3 * max_kpts + 6) }
  \cup
  { [layers |-> ls, params |-> NoParams, env |-> EnvUnset] : ls \in BadLayers }

\* ---- pose, compact convention: head = x1, y1, x2, y2, obj, class id
Y26Cat ==
  { [head |-> <<px(1), px(1), px(7), px(7), 6000, 0>>, scores |-> <<>>, kp |-> Kp],
    [head |-> <<px(1), px(0), px(7), px(8), 9000, 10000>>, scores |-> <<>>, kp |-> Kp],
    [head |-> <<px(7), px(7), px(1), px(1), 5000, 20000>>, scores |-> <<>>, kp |-> Kp],
    [head |-> <<px(10), px(10), px(14), px(14), 9000, -10000>>,
     scores |-> <<>>, kp |-> Kp],
    [head |-> <<px(10), px(10), px(14), px(14), 2600, 30000>>,
     scores |-> <<>>, kp |-> Kp] }

Y26ObjValues == {2400, 2500, 2999, 3000, 5999, 6000, 9000}
Y26ClsValues ==
  {-10000, -5000, -4999, 0, 4999, 5000, 10000, 14999, 15000, 20000, 30000}

Y26Sweep ==
  { [head |-> <<px(1), px(1), px(7), px(7), o, c>>, scores |-> <<>>, kp |-> Kp] :
      o \in Y26ObjValues, c \in Y26ClsValues }

Y26Params ==
  { [numClassesConfigured |-> n, perClassPreclusterThreshold |-> t] :
      n \in {0, 2}, t \in {<<>>, <<3000, 6000>>} }

Y26Tensor(cs, stride, rank, fieldMajor) ==
  Tensor([i \in 1..Len(cs) |-> RowOf(cs[i], 0, (stride - 6) \div 3)],
         stride, rank, fieldMajor)

Y26Inputs ==
  { [layers |-> <<Y26Tensor(cs, 9, 2, FALSE)>>, params |-> prm, env |-> EnvUnset] :
      cs \in SeqsUpTo(Y26Cat, MaxPreds), prm \in Y26Params }
  \cup
  { [layers |-> <<Y26Tensor(cs, stride, rank, fm)>>, params |-> NoParams, env |-> e] :
      cs \in SeqsUpTo(Y26Cat, 2), stride \in {6, 12}, rank \in {2, 3},
      fm \in BOOLEAN, e \in {EnvUnset, EnvWide} }
  \cup
  { [layers |-> <<Y26Tensor(<<c>>, 9, 3, TRUE)>>, params |-> prm, env |-> EnvUnset] :
      c \in Y26Sweep,
      prm \in Y26Params \cup
              {[numClassesConfigured |-> 0, perClassPreclusterThreshold |-> <<5000>>]} }
  \cup
  { [layers |-> <<ZeroLayer(rank, d, TRUE, "FLOAT")>>, params |-> NoParams,
     env |-> EnvUnset] :
      rank \in {2, 3},
      d \in {<<2, 5, 7>>, <<1, 7, 2>>, <<3, 8, 4>>, <<4, 3, 3>>, <<6, 9, 6>>,
             <<9, 6, 9>>} }
  \cup
  { [layers |-> ls, params |-> NoParams, env |-> EnvUnset] : ls \in BadLayers }

(***************************************************************************)
(* The entry points, single-threaded: each is one call from the plugin     *)
(* host, start to return.                                                  *)
(***************************************************************************)
\* what one call of update_pose_cache was given
Stored(ds, kpts) == [dets |-> Len(ds), kpts |-> kpts, flat |-> Flatten(ds)]

FailedMutClear ==
  /\ ret' = "false"
  /\ rowres' = <<>> /\ dets' = <<>> /\ rem' = <<>> /\ reads' = {}
  /\ objects' = <<>>
  /\ UNCHANGED <<g_pose_cache, updates>>
Failed ==
  /\ ret' = "false"
  /\ rowres' = <<>> /\ dets' = <<>> /\ rem' = <<>> /\ reads' = {}
  /\ UNCHANGED <<objects, g_pose_cache, updates>>

parse_obb_internal(in) ==
  /\ layers' = in.layers /\ params' = in.params /\ env' = in.env
  /\ UNCHANGED <<entry, net, threadVars>>
  /\ IF Len(in.layers) = 0 \/ ~ObbLayout(SelectLayer(in.layers)).ok
     THEN Failed
     ELSE LET L == SelectLayer(in.layers)
              rr == ObbRows(L, net, ObbLayout(L))
          IN \E s \in SortOutcomes(Accepted(rr)) :
               LET rm == NmsObb(s, iou_thr)
                   keep == Kept(s, rm)
               IN /\ rowres' = rr /\ dets' = s /\ rem' = rm
                  /\ reads' = ObbReads(L, ObbLayout(L))
                  /\ objects' = [i \in 1..Len(keep) |-> ObbObject(keep[i])]
                  /\ ret' = "true"
                  /\ UNCHANGED <<g_pose_cache, updates>>

parse_pose_internal(in) ==
  /\ g_pose_cache.seq < MaxSeq
  /\ layers' = in.layers /\ params' = in.params /\ env' = in.env
  /\ UNCHANGED <<entry, net, threadVars>>
  /\ IF \/ Len(in.layers) = 0
        \/ ~PoseLayout(SelectLayer(in.layers)).ok
        \/ ~InferSchema(PoseLayout(SelectLayer(in.layers)).dim).ok
     THEN Failed
     ELSE LET L == SelectLayer(in.layers)
              lay == PoseLayout(L)
              sch == InferSchema(lay.dim)
              rr == PoseRows(L, lay, sch, Geometry(net, in.env))
          IN \E s \in SortOutcomes(Accepted(rr)) :
               LET rm == NmsPose(s, iou_thr)
                   keep == Kept(s, rm)
               IN /\ rowres' = rr /\ dets' = s /\ rem' = rm
                  /\ reads' = PoseReads(L, lay, sch, Geometry(net, in.env))
                  /\ g_pose_cache' = update_pose_cache(g_pose_cache, keep, sch.kpts)
                  /\ updates' = Append(updates, Stored(keep, sch.kpts))
                  /\ objects' = [i \in 1..Len(keep) |-> PoseObject(keep[i])]
                  /\ ret' = "true"

decode_yolo26_poseMutSuppress(in) ==
  /\ g_pose_cache.seq < MaxSeq
  /\ layers' = in.layers /\ params' = in.params /\ env' = in.env
  /\ UNCHANGED <<entry, net, threadVars>>
  /\ IF \/ Len(in.layers) = 0
        \/ ~Yolo26Layout(SelectLayer(in.layers)).ok
        \/ ~stride_matches(Yolo26Layout(SelectLayer(in.layers)).stride)
     THEN Failed
     ELSE LET L == SelectLayer(in.layers)
              lay == Yolo26Layout(L)
              rr == Yolo26Rows(L, lay, in.params, Geometry(net, in.env))
          IN \E s \in SortOutcomes(Accepted(rr)) :
               LET rm == NmsPose(s, iou_thr)
                   keep == Kept(s, rm)
               IN /\ rowres' = rr /\ dets' = s /\ rem' = rm
                  /\ reads' = Yolo26Reads(L, lay, in.params, Geometry(net, in.env))
                  /\ g_pose_cache' =
                       update_pose_cache(g_pose_cache, keep, (lay.stride - 6) \div 3)
                  /\ updates' = Append(updates, Stored(keep, (lay.stride - 6) \div 3))
                  /\ objects' = [i \in 1..Len(keep) |-> PoseObject(keep[i])]
                  /\ ret' = "true"
decode_yolo26_pose(in) ==
  /\ g_pose_cache.seq < MaxSeq
  /\ layers' = in.layers /\ params' = in.params /\ env' = in.env
  /\ UNCHANGED <<entry, net, threadVars>>
  /\ IF \/ Len(in.layers) = 0
        \/ ~Yolo26Layout(SelectLayer(in.layers)).ok
        \/ ~stride_matches(Yolo26Layout(SelectLayer(in.layers)).stride)
     THEN Failed
     ELSE LET L == SelectLayer(in.layers)
              lay == Yolo26Layout(L)
              rr == Yolo26Rows(L, lay, in.params, Geometry(net, in.env))
              ds == Accepted(rr)
          IN /\ rowres' = rr /\ dets' = ds /\ rem' = [i \in 1..Len(ds) |-> FALSE]
             /\ reads' = Yolo26Reads(L, lay, in.params, Geometry(net, in.env))
             /\ g_pose_cache' =
                  update_pose_cache(g_pose_cache, ds, (lay.stride - 6) \div 3)
             /\ updates' = Append(updates, Stored(ds, (lay.stride - 6) \div 3))
             /\ objects' = [i \in 1..Len(ds) |-> PoseObject(ds[i])]
             /\ ret' = "true"

NvDsInferParseYoloV8OBB(inputs) ==
  entry = "NvDsInferParseYoloV8OBB" /\ \E in \in inputs : parse_obb_internal(in)
NvDsInferParseYoloOBB(inputs) ==
  entry = "NvDsInferParseYoloOBB" /\ \E in \in inputs : parse_obb_internal(in)
NvDsInferParseYoloV8Pose(inputs) ==
  entry = "NvDsInferParseYoloV8Pose" /\ \E in \in inputs : parse_pose_internal(in)
NvDsInferParseYoloV8PoseBoxes(inputs) ==
  entry = "NvDsInferParseYoloV8PoseBoxes" /\ \E in \in inputs : parse_pose_internal(in)
NvDsInferParseYolo26Pose(inputs) ==
  entry = "NvDsInferParseYolo26Pose" /\ \E in \in inputs : decode_yolo26_pose(in)

EntryPoints ==
  {"NvDsInferParseYoloV8OBB", "NvDsInferParseYoloOBB", "NvDsInferParseYoloV8Pose",
   "NvDsInferParseYoloV8PoseBoxes", "NvDsInferParseYolo26Pose"}

Threads == 1..NThreads

IsLegacyEntry ==
  entry \in {"NvDsInferParseYoloV8Pose", "NvDsInferParseYoloV8PoseBoxes"}

InitShared ==
  /\ g_pose_cache = [seq |-> 0, kpts |-> 0, flat |-> <<>>]
  /\ mtx = 0
  /\ dbg_geom = FALSE /\ debug_raw_printed = FALSE /\ debug_det_printed = FALSE
  /\ updates = <<>>

InitCall ==
  /\ layers = <<>> /\ net = NetInfo /\ params = NoParams /\ env = EnvUnset
  /\ rowres = <<>> /\ dets = <<>> /\ rem = <<>>
  /\ objects = <<>> /\ ret = "none" /\ reads = {}

InitThreads ==
  /\ pc = [t \in Threads |-> "idle"]
  /\ tl = [t \in Threads |-> <<>>]
  /\ got = [t \in Threads |-> <<>>]

\* one nvinfer instance, configured with one custom parse function, before
\* its first frame
Init == InitShared /\ InitCall /\ InitThreads /\ entry \in EntryPoints

(***************************************************************************)
(* Spec: the first call of the configured parse function, on any tensor of *)
(* the input families above.                                               *)
(***************************************************************************)
FirstObbV8 == ret = "none" /\ NvDsInferParseYoloV8OBB(ObbInputs)
FirstObb == ret = "none" /\ NvDsInferParseYoloOBB(ObbInputs)
FirstPose == ret = "none" /\ NvDsInferParseYoloV8Pose(PoseInputs)
FirstPoseBoxes == ret = "none" /\ NvDsInferParseYoloV8PoseBoxes(PoseInputs)
FirstYolo26 == ret = "none" /\ NvDsInferParseYolo26Pose(Y26Inputs)

Next == FirstObbV8 \/ FirstObb \/ FirstPose \/ FirstPoseBoxes \/ FirstYolo26

Spec == Init /\ [][Next]_vars

(***************************************************************************)
(* SpecFrames: the configured parse function called frame after frame on   *)
(* the same output list, which the caller does not empty between calls.    *)
(***************************************************************************)
ObbFrames ==
  { [layers |-> <<Tensor(<<RowOf(c, 2, 0)>>, 8, 2, FALSE)>>,
     params |-> NoParams, env |-> EnvUnset] : c \in ObbCat }
  \cup
  { [layers |-> ls, params |-> NoParams, env |-> EnvUnset] : ls \in BadLayers }

PoseFrames ==
  { [layers |-> <<PoseTensor(<<c>>, 10, 3, TRUE, 0)>>, params |-> NoParams,
     env |-> EnvUnset] : c \in PoseCat }
  \cup
  { [layers |-> <<ZeroLayer(3, <<1, 7, 2>>, TRUE, "FLOAT")>>, params |-> NoParams,
     env |-> EnvUnset] }
  \cup
  { [layers |-> ls, params |-> NoParams, env |-> EnvUnset] : ls \in BadLayers }

Y26Frames ==
  { [layers |-> <<Y26Tensor(<<c>>, 9, 2, FALSE)>>, params |-> NoParams,
     env |-> EnvUnset] : c \in Y26Cat }
  \cup
  { [layers |-> <<ZeroLayer(d[1], d[2], TRUE, "FLOAT")>>, params |-> NoParams,
     env |-> EnvUnset] : d \in {<<2, <<2, 5, 0>>>>, <<3, <<1, 7, 2>>>>} }
  \cup
  { [layers |-> ls, params |-> NoParams, env |-> EnvUnset] : ls \in BadLayers }

FrameObbV8 == NvDsInferParseYoloV8OBB(ObbFrames)
FrameObb == NvDsInferParseYoloOBB(ObbFrames)
FramePose == NvDsInferParseYoloV8Pose(PoseFrames)
FramePoseBoxes == NvDsInferParseYoloV8PoseBoxes(PoseFrames)
FrameYolo26 == NvDsInferParseYolo26Pose(Y26Frames)

NextFrames ==
  FrameObbV8 \/ FrameObb \/ FramePose \/ FramePoseBoxes \/ FrameYolo26

SpecFrames == Init /\ [][NextFrames]_vars

(***************************************************************************)
(* SpecConc: threads of one process calling the configured pose parse      *)
(* function and the accessor NvDsInferGetPoseCache concurrently.  A step   *)
(* is one access to process-wide state: a function-local static of         *)
(* decode(), the mutex, or the cache fields under it.  Everything a call   *)
(* computes from its own arguments happens in the step that starts it.     *)
(***************************************************************************)
ConcPoseInputs ==
  { [layers |-> <<PoseTensor(<<c>>, 8, 3, TRUE, 0)>>, params |-> NoParams,
     env |-> EnvUnset] :
      c \in { [head |-> <<px(4), px(4), px(6), px(6), 9000>>, scores |-> <<>>,
               kp |-> Kp],
              [head |-> <<px(4), px(4), px(6), px(6), 1000>>, scores |-> <<>>,
               kp |-> Kp] } }
  \cup
  { [layers |-> <<PoseTensor(<<>>, 11, 3, TRUE, 0)>>, params |-> NoParams,
     env |-> EnvUnset] }

ConcY26Inputs ==
  { [layers |-> <<Y26Tensor(<<c>>, 9, 2, FALSE)>>, params |-> NoParams,
     env |-> EnvUnset] :
      c \in {[head |-> <<px(1), px(1), px(7), px(7), 6000, 0>>, scores |-> <<>>,
              kp |-> Kp]} }
  \cup
  { [layers |-> <<Y26Tensor(<<>>, 12, 2, FALSE)>>, params |-> NoParams,
     env |-> EnvUnset] }

\* calls that will update the cache, started and not yet returned
InDecode == {t \in Threads : pc[t] \notin {"idle", "acc_count", "acc_ret", "acc_use"}}

\* std::lock_guard<std::mutex> lock(g_pose_cache.mtx): blocks while held
lock_guardMutNone(t) == mtx' = mtx
lock_guard(t) == mtx = 0 /\ mtx' = t

\* the end of the guard's scope
unlock(t) == mtx' = 0

Goto(t, where) == pc' = [pc EXCEPT ![t] = where]

\* where decode() goes after the dbg_geom block, and after the row's
\* debug_raw_printed block
AfterGeom(l) == IF l.rows > 0 THEN "debug_raw_printed" ELSE "update"
AfterRaw(l) == IF l.pass THEN "debug_det_printed" ELSE "update"

\* NvDsInferParseYoloV8Pose / ...PoseBoxes on thread t up to the first access
\* to a static of decode(): layout, schema, geometry
PoseCall(t) ==
  /\ IsLegacyEntry /\ pc[t] = "idle"
  /\ Len(updates) + Cardinality(InDecode) < MaxSeq
  /\ \E in \in ConcPoseInputs :
       LET L == SelectLayer(in.layers)
           lay == PoseLayout(L)
           sch == InferSchema(lay.dim)
           rr == PoseRows(L, lay, sch, Geometry(net, in.env))
       IN /\ lay.ok /\ sch.ok
          /\ \E s \in SortOutcomes(Accepted(rr)) :
               LET keep == Kept(s, NmsPose(s, iou_thr))
               IN tl' = [tl EXCEPT ![t] =
                           [rows |-> lay.num_preds, pass |-> Accepted(rr) # <<>>,
                            stored |-> Stored(keep, sch.kpts),
                            flat |-> Flatten(keep)]]
  /\ Goto(t, "dbg_geom")
  /\ UNCHANGED <<callVars, g_pose_cache, mtx, dbg_geom, debug_raw_printed,
                 debug_det_printed, got, updates>>

\* if (!dbg_geom)
CheckGeom(t) ==
  /\ pc[t] = "dbg_geom"
  /\ Goto(t, IF dbg_geom THEN AfterGeom(tl[t]) ELSE "set_dbg_geom")
  /\ UNCHANGED <<callVars, g_pose_cache, mtx, dbg_geom, debug_raw_printed,
                 debug_det_printed, tl, got, updates>>

\* dbg_geom = true
SetGeom(t) ==
  /\ pc[t] = "set_dbg_geom"
  /\ dbg_geom' = TRUE
  /\ Goto(t, AfterGeom(tl[t]))
  /\ UNCHANGED <<callVars, g_pose_cache, mtx, debug_raw_printed,
                 debug_det_printed, tl, got, updates>>

\* if (!debug_raw_printed)
CheckRaw(t) ==
  /\ pc[t] = "debug_raw_printed"
  /\ Goto(t, IF debug_raw_printed THEN AfterRaw(tl[t]) ELSE "set_debug_raw_printed")
  /\ UNCHANGED <<callVars, g_pose_cache, mtx, dbg_geom, debug_raw_printed,
                 debug_det_printed, tl, got, updates>>

\* debug_raw_printed = true
SetRaw(t) ==
  /\ pc[t] = "set_debug_raw_printed"
  /\ debug_raw_printed' = TRUE
  /\ Goto(t, AfterRaw(tl[t]))
  /\ UNCHANGED <<callVars, g_pose_cache, mtx, dbg_geom, debug_det_printed,
                 tl, got, updates>>

\* if (!debug_det_printed)
CheckDet(t) ==
  /\ pc[t] = "debug_det_printed"
  /\ Goto(t, IF debug_det_printed THEN "update" ELSE "set_debug_det_printed")
  /\ UNCHANGED <<callVars, g_pose_cache, mtx, dbg_geom, debug_raw_printed,
                 debug_det_printed, tl, got, updates>>

\* debug_det_printed = true
SetDet(t) ==
  /\ pc[t] = "set_debug_det_printed"
  /\ debug_det_printed' = TRUE
  /\ Goto(t, "update")
  /\ UNCHANGED <<callVars, g_pose_cache, mtx, dbg_geom, debug_raw_printed,
                 tl, got, updates>>

\* NvDsInferParseYolo26Pose on thread t up to update_pose_cache: the compact
\* decoder has no statics
Yolo26Call(t) ==
  /\ entry = "NvDsInferParseYolo26Pose" /\ pc[t] = "idle"
  /\ Len(updates) + Cardinality(InDecode) < MaxSeq
  /\ \E in \in ConcY26Inputs :
       LET L == SelectLayer(in.layers)
           lay == Yolo26Layout(L)
           ds == Accepted(Yolo26Rows(L, lay, in.params, Geometry(net, in.env)))
       IN /\ lay.ok
          /\ tl' = [tl EXCEPT ![t] =
                      [rows |-> lay.num_preds, pass |-> ds # <<>>,
                       stored |-> Stored(ds, (lay.stride - 6) \div 3),
                       flat |-> Flatten(ds)]]
  /\ Goto(t, "update")
  /\ UNCHANGED <<callVars, g_pose_cache, mtx, dbg_geom, debug_raw_printed,
                 debug_det_printed, got, updates>>

\* update_pose_cache, the lock_guard
UpdLock(t) ==
  /\ pc[t] = "update"
  /\ lock_guard(t)
  /\ Goto(t, "upd_seq")
  /\ UNCHANGED <<callVars, g_pose_cache, dbg_geom, debug_raw_printed,
                 debug_det_printed, tl, got, updates>>

\* g_pose_cache.seq++; g_pose_cache.kpts = kpts
UpdSeq(t) ==
  /\ pc[t] = "upd_seq"
  /\ g_pose_cache' = [g_pose_cache EXCEPT !.seq = @ + 1, !.kpts = tl[t].stored.kpts]
  /\ Goto(t, "upd_flat")
  /\ UNCHANGED <<callVars, mtx, dbg_geom, debug_raw_printed, debug_det_printed,
                 tl, got, updates>>

\* flat.clear() and the push_back loop, then the return of the update and of
\* the parse function
UpdFlat(t) ==
  /\ pc[t] = "upd_flat"
  /\ g_pose_cache' = [g_pose_cache EXCEPT !.flat = tl[t].flat]
  /\ unlock(t)
  /\ updates' = Append(updates, tl[t].stored)
  /\ tl' = [tl EXCEPT ![t] = <<>>]
  /\ Goto(t, "idle")
  /\ UNCHANGED <<callVars, dbg_geom, debug_raw_printed, debug_det_printed, got>>

\* NvDsInferGetPoseCache, the lock_guard
AccLock(t) ==
  /\ pc[t] = "idle"
  /\ lock_guard(t)
  /\ tl' = [tl EXCEPT ![t] = <<>>]
  /\ Goto(t, "acc_count")
  /\ UNCHANGED <<callVars, g_pose_cache, dbg_geom, debug_raw_printed,
                 debug_det_printed, got, updates>>

\* *data = ...; *count = flat.size()
AccCount(t) ==
  /\ pc[t] = "acc_count"
  /\ tl' = [tl EXCEPT ![t] =
              [data |-> IF g_pose_cache.flat = <<>> THEN "nullptr" ELSE "flat.data()",
               count |-> Len(g_pose_cache.flat)]]
  /\ Goto(t, "acc_ret")
  /\ UNCHANGED <<callVars, g_pose_cache, mtx, dbg_geom, debug_raw_printed,
                 debug_det_printed, got, updates>>

\* *kpts = g_pose_cache.kpts; return g_pose_cache.seq: the lock is released
\* and the caller has the pointer
AccRet(t) ==
  /\ pc[t] = "acc_ret"
  /\ got' = [got EXCEPT ![t] = [data |-> tl[t].data, count |-> tl[t].count,
                                kpts |-> g_pose_cache.kpts,
                                seq |-> g_pose_cache.seq]]
  /\ unlock(t)
  /\ tl' = [tl EXCEPT ![t] = <<>>]
  /\ Goto(t, "acc_use")
  /\ UNCHANGED <<callVars, g_pose_cache, dbg_geom, debug_raw_printed,
                 debug_det_printed, updates>>

\* the caller has read the `count` floats behind the pointer it was given
AccUse(t) ==
  /\ pc[t] = "acc_use"
  /\ Goto(t, "idle")
  /\ UNCHANGED <<callVars, g_pose_cache, mtx, dbg_geom, debug_raw_printed,
                 debug_det_printed, tl, got, updates>>

NextConc ==
  \E t \in Threads :
    \/ PoseCall(t) \/ CheckGeom(t) \/ SetGeom(t) \/ CheckRaw(t) \/ SetRaw(t)
    \/ CheckDet(t) \/ SetDet(t) \/ Yolo26Call(t)
    \/ UpdLock(t) \/ UpdSeq(t) \/ UpdFlat(t)
    \/ AccLock(t) \/ AccCount(t) \/ AccRet(t) \/ AccUse(t)

\* an nvinfer instance configured with one of the pose parse functions
InitConc == Init /\ (IsLegacyEntry \/ entry = "NvDsInferParseYolo26Pose")

SpecConc == InitConc /\ [][NextConc]_vars

(***************************************************************************)
(* Reading the last call's tensor back, for the properties below           *)
(***************************************************************************)
IsObb == entry \in {"NvDsInferParseYoloV8OBB", "NvDsInferParseYoloOBB"}
IsPose == IsLegacyEntry
IsYolo26 == entry = "NvDsInferParseYolo26Pose"
Returned(r) == ret = r

TheLayer == SelectLayer(layers)

\* field c (from 0) of row i (from 1) as each decoder addresses it
ObbField(i, c) == At(TheLayer.data, (i - 1) * ObbLayout(TheLayer).D, c)
PoseField(i, c) ==
  LET lay == PoseLayout(TheLayer)
  IN IF lay.channel_major THEN At(TheLayer.data, i - 1, c * lay.stride)
     ELSE At(TheLayer.data, (i - 1) * lay.dim, c)
Y26Field(i, c) ==
  LET lay == Yolo26Layout(TheLayer)
  IN IF lay.channel_major THEN At(TheLayer.data, i - 1, c * lay.num_preds)
     ELSE At(TheLayer.data, (i - 1) * lay.stride, c)

\* the axis-aligned IoU of two detections of the last call: <<inter, union>>
DetIou(a, b) == IF IsObb THEN iou_aabb(a, b) ELSE iou_xyxy(a, b)
\* IoU strictly above 0.45, and IoU exactly 0.45
IouAbove(a, b) == DetIou(a, b)[1] * 100 > 45 * DetIou(a, b)[2]
IouAtThreshold(a, b) ==
  DetIou(a, b)[2] > 0 /\ DetIou(a, b)[1] * 100 = 45 * DetIou(a, b)[2]

\* s is a rearrangement of t
IsPermutation(s, t) ==
  /\ Len(s) = Len(t)
  /\ \E p \in Perms(Len(s)) : \A i \in 1..Len(s) : s[i] = t[p[i]]

\* the box of an output object as corners
ObjX2(o) == o.left + o.width
ObjY2(o) == o.top + o.height

(***************************************************************************)
(* C1.  Oriented-box and legacy pose decoders: the detections that passed  *)
(* the confidence filter are ranked by non-increasing confidence; one is   *)
(* dropped if and only if a detection ranked before it that was kept has   *)
(* IoU strictly above 0.45 with it; the returned list is the kept ones in  *)
(* rank order, so it is in non-increasing confidence order and no two of   *)
(* its detections have IoU above 0.45 (IoU exactly 0.45 does not drop).    *)
(***************************************************************************)
C1_Suppressor ==
  ((IsObb \/ IsPose) /\ Returned("true")) =>
    /\ IsPermutation(dets, Accepted(rowres))
    /\ Len(rem) = Len(dets)
    /\ \A i, j \in 1..Len(dets) : i < j => dets[i].conf >= dets[j].conf
    /\ \A j \in 1..Len(dets) :
         rem[j] <=> \E i \in 1..(j - 1) : ~rem[i] /\ IouAbove(dets[i], dets[j])
    /\ Len(objects) = Cardinality({j \in 1..Len(dets) : ~rem[j]})
    /\ \A i \in 1..Len(objects) :
         objects[i].detectionConfidence = Kept(dets, rem)[i].conf
    /\ \A i, j \in 1..Len(objects) :
         i < j => objects[i].detectionConfidence >= objects[j].detectionConfidence
    /\ \A i, j \in 1..Len(dets) :
         (i # j /\ ~rem[i] /\ ~rem[j]) => ~IouAbove(dets[i], dets[j])

\* a call that dropped one detection and kept two whose IoU is exactly 0.45
C1_Witness ==
  /\ IsObb \/ IsPose
  /\ Returned("true")
  /\ \E j \in 1..Len(dets) : rem[j]
  /\ \E i, j \in 1..Len(dets) :
       i < j /\ ~rem[i] /\ ~rem[j] /\ IouAtThreshold(dets[i], dets[j])

(***************************************************************************)
(* C2 as claimed.  After a successful NvDsInferParseYolo26Pose no two      *)
(* detections of the output list, and no two of the result cache, have     *)
(* IoU above 0.45.                                                         *)
(***************************************************************************)
CacheStride == kBaseValuesPerDet + 3 * g_pose_cache.kpts
CacheCount == Len(g_pose_cache.flat) \div CacheStride
CacheDet(i) ==
  [x1 |-> g_pose_cache.flat[(i - 1) * CacheStride + 1],
   y1 |-> g_pose_cache.flat[(i - 1) * CacheStride + 2],
   x2 |-> g_pose_cache.flat[(i - 1) * CacheStride + 3],
   y2 |-> g_pose_cache.flat[(i - 1) * CacheStride + 4],
   conf |-> g_pose_cache.flat[(i - 1) * CacheStride + 5]]
ObjDet(o) == [x1 |-> o.left, y1 |-> o.top, x2 |-> ObjX2(o), y2 |-> ObjY2(o)]

AcceptedRows == {i \in 1..Len(rowres) : rowres[i].ok}
RowNc ==
  IF IsObb THEN ObbClassCount(ObbLayout(TheLayer).D)
  ELSE InferSchema(PoseLayout(TheLayer).dim).nc
RowHasScores ==
  RowNc >= 1 /\ (IsObb => ObbLayout(TheLayer).D >= 6 + RowNc)
RowObj(i) ==
  IF IsObb THEN ObbSelect(ObbField(i, 4), ObbField(i, 5))[2] ELSE PoseField(i, 4)
RowScore(i, c) == IF IsObb THEN ObbField(i, 6 + c) ELSE PoseField(i, 5 + c)
MaxScore(i) ==
  CHOOSE m \in {RowScore(i, c) : c \in 0..(RowNc - 1)} :
    \A c \in 0..(RowNc - 1) : RowScore(i, c) <= m

C3_ConfidenceIsObjTimesBestScore ==
  ((IsObb \/ IsPose) /\ Returned("true") /\ RowHasScores) =>
    \A i \in 1..Len(rowres) :
      (RowObj(i) >= conf_thr /\ FMul(RowObj(i), MaxScore(i)) >= conf_thr) =>
        /\ rowres[i].ok
        /\ RowScore(i, rowres[i].det.cls) = MaxScore(i)
        /\ rowres[i].det.conf = FMul(RowObj(i), MaxScore(i))

(***************************************************************************)
(* C4.  Oriented boxes, each row on its own: with o0 = (|p[4]| <= 3.5 and  *)
(* 0 <= p[5] <= 1.0001) and o1 = (|p[5]| <= 3.5 and 0 <= p[4] <= 1.0001),  *)
(* rotation is p[5] and objectness p[4] when o1 holds and o0 does not;     *)
(* otherwise (o0 alone, both, neither) rotation is p[4] and objectness     *)
(* p[5].  The row is emitted exactly when that objectness and its product  *)
(* with the class score reach 0.25, with that rotation and confidence.     *)
(***************************************************************************)
Plausible(rotation, objectness) ==
  /\ -35000 <= rotation /\ rotation <= 35000
  /\ 0 <= objectness /\ objectness <= 10001
OnlySwapped(i) ==
  /\ Plausible(ObbField(i, 5), ObbField(i, 4))
  /\ ~Plausible(ObbField(i, 4), ObbField(i, 5))
RotationOf(i) == IF OnlySwapped(i) THEN ObbField(i, 5) ELSE ObbField(i, 4)
ObjectnessOf(i) == IF OnlySwapped(i) THEN ObbField(i, 4) ELSE ObbField(i, 5)
ObbBestScore(i) ==
  BestClass(RowNc, TheLayer.data, (i - 1) * ObbLayout(TheLayer).D + 6, 1)[2]

C4_ObbFieldOrder ==
  (IsObb /\ Returned("true") /\ ObbLayout(TheLayer).D >= 7) =>
    \A i \in 1..Len(rowres) :
      /\ rowres[i].ok <=>
           /\ ObjectnessOf(i) >= conf_thr
           /\ FMul(ObjectnessOf(i), ObbBestScore(i)) >= conf_thr
      /\ rowres[i].ok =>
           /\ rowres[i].det.theta = RotationOf(i)
           /\ rowres[i].det.conf = FMul(ObjectnessOf(i), ObbBestScore(i))

\* an emitted row for which only the [objectness, rotation] ordering is plausible
C4_Witness ==
  /\ IsObb /\ Returned("true") /\ ObbLayout(TheLayer).D >= 7
  /\ \E i \in 1..Len(rowres) :
       /\ OnlySwapped(i) /\ rowres[i].ok
       /\ rowres[i].det.theta = ObbField(i, 5)
       /\ ObbField(i, 4) # ObbField(i, 5)

(***************************************************************************)
(* C5.  Legacy pose schema: over k = 1..50, the k with                     *)
(* fieldStride - 5 - 3k = 0 is taken with classCount 0 if there is one,    *)
(* else the smallest k with fieldStride - 5 - 3k >= 0 with that remainder  *)
(* as classCount; the call fails when no k gives a remainder >= 0; on      *)
(* success fieldStride = 5 + classCount + 3*keypointCount.                 *)
(***************************************************************************)
Guesses == 1..50
ExactGuesses(stride) == {k \in Guesses : stride - 5 - 3 * k = 0}
FittingGuesses(stride) == {k \in Guesses : stride - 5 - 3 * k >= 0}
Least(S) == CHOOSE k \in S : \A m \in S : k <= m
PoseDim == PoseLayout(TheLayer).dim

C5_PoseSchema ==
  (IsPose /\ ret # "none" /\ Len(layers) > 0 /\ PoseLayout(TheLayer).ok) =>
    LET sch == InferSchema(PoseDim)
    IN IF ExactGuesses(PoseDim) # {}
       THEN /\ Returned("true")
            /\ sch.ok /\ sch.nc = 0 /\ sch.kpts = Least(ExactGuesses(PoseDim))
            /\ g_pose_cache.kpts = sch.kpts
            /\ PoseDim = 5 + sch.nc + 3 * sch.kpts
       ELSE IF FittingGuesses(PoseDim) # {}
       THEN /\ Returned("true")
            /\ sch.ok /\ sch.kpts = Least(FittingGuesses(PoseDim))
            /\ sch.nc = PoseDim - 5 - 3 * sch.kpts
            /\ g_pose_cache.kpts = sch.kpts
            /\ \A i \in 1..Len(dets) : Len(dets[i].kpts) = 3 * sch.kpts
            /\ PoseDim = 5 + sch.nc + 3 * sch.kpts
       ELSE Returned("false") /\ ~sch.ok

\* a successful legacy call on a stride with no exact solution (fallback),
\* which decoded a detection
C5_Witness ==
  /\ IsPose /\ Returned("true")
  /\ ExactGuesses(PoseDim) = {} /\ FittingGuesses(PoseDim) # {}
  /\ g_pose_cache.kpts = 1 /\ Len(dets) > 0

(***************************************************************************)
(* C6 as claimed.  A stride with no valid decomposition makes the call     *)
(* fail: oriented boxes when fieldStride - 6 < 1; legacy pose when no      *)
(* keypoint guess leaves a class count >= 0; compact pose when no declared *)
(* dimension d has d >= 6 and (d - 6) divisible by 3.                      *)
(***************************************************************************)
Y26Dims == IF TheLayer.numDims = 2 THEN {TheLayer.d[1], TheLayer.d[2]}
           ELSE {TheLayer.d[2], TheLayer.d[3]}

C6_UnsolvableStrideFails ==
  (ret # "none" /\ Len(layers) > 0 /\ TheLayer.hasBuffer
     /\ TheLayer.numDims \in {2, 3}) =>
    /\ (IsObb /\ ObbLayout(TheLayer).D - 6 < 1) => Returned("false")
    /\ (IsPose /\ FittingGuesses(PoseDim) = {}) => Returned("false")
    /\ (IsYolo26 /\ \A d \in Y26Dims : d < 6 \/ (d - 6) % 3 # 0) =>
         Returned("false")

\* the two decoders that do fail on such a stride
C6_PoseDecodersFail ==
  (ret # "none" /\ Len(layers) > 0 /\ TheLayer.hasBuffer
     /\ TheLayer.numDims \in {2, 3}) =>
    /\ (IsPose /\ FittingGuesses(PoseDim) = {}) => Returned("false")
    /\ (IsYolo26 /\ \A d \in Y26Dims : d < 6 \/ (d - 6) % 3 # 0) =>
         Returned("false")

(***************************************************************************)
(* C8.  Compact pose decoder: a row is emitted if and only if its class    *)
(* index (field 5 rounded to the nearest integer) is >= 0, is below        *)
(* numClassesConfigured when that is positive, and its objectness is at    *)
(* least the effective threshold: the per-class entry of that index, else  *)
(* the first per-class entry when there is one, else 0.25.  Rejected rows  *)
(* are left out and the call still returns success.                        *)
(***************************************************************************)
Per == params.perClassPreclusterThreshold
\* the nearest integer to v/Q, a half going away from zero
Nearest(v) ==
  CHOOSE n \in -8..8 :
    \/ 2 * fabs(v - n * Q) < Q
    \/ 2 * fabs(v - n * Q) = Q /\ fabs(n * Q) > fabs(v)
EffectiveThreshold(cls) ==
  IF cls + 1 \in DOMAIN Per THEN Per[cls + 1]
  ELSE IF Per # <<>> THEN Per[1]
  ELSE 2500

C8_Yolo26RowFilter ==
  (IsYolo26 /\ ret # "none" /\ Len(layers) > 0 /\ Yolo26Layout(TheLayer).ok) =>
    /\ Returned("true")
    /\ Len(rowres) = Yolo26Layout(TheLayer).num_preds
    /\ \A i \in 1..Len(rowres) :
         LET cls == Nearest(Y26Field(i, 5))
         IN /\ rowres[i].ok <=>
                 /\ cls >= 0
                 /\ params.numClassesConfigured > 0 =>
                      cls < params.numClassesConfigured
                 /\ Y26Field(i, 4) >= EffectiveThreshold(cls)
            /\ rowres[i].ok => rowres[i].det.cls = cls
    /\ Len(objects) = Cardinality(AcceptedRows)

\* a call with a per-class sequence and two rows whose class index is beyond
\* it: one emitted on the first entry, one above 0.25 rejected on it
C8_Witness ==
  /\ IsYolo26 /\ Returned("true") /\ Per # <<>>
  /\ \E i \in 1..Len(rowres) :
       /\ rowres[i].ok /\ rowres[i].det.cls >= Len(Per)
       /\ rowres[i].det.conf >= Per[1]
  /\ \E i \in 1..Len(rowres) :
       /\ ~rowres[i].ok /\ Nearest(Y26Field(i, 5)) >= Len(Per)
       /\ Y26Field(i, 4) >= conf_thr /\ Y26Field(i, 4) < Per[1]

(***************************************************************************)
(* C7.  A call that returns failure (empty layer list, null buffer, rank   *)
(* other than 2 or 3, unsupported stride) leaves the caller's output list  *)
(* exactly as it was before the call, and the result cache (buffer,        *)
(* keypoint count, sequence number) unchanged.                             *)
(***************************************************************************)
C7_FailureTouchesNothing ==
  [][ret' = "false" => (objects' = objects /\ g_pose_cache' = g_pose_cache)]_vars

\* a failed call on a list and a cache that an earlier call had filled
C7_Witness ==
  /\ Returned("false")
  /\ objects # <<>> /\ g_pose_cache.seq > 0 /\ g_pose_cache.flat # <<>>

(***************************************************************************)
(* C9.  Under any interleaving of pose decode and accessor calls: the      *)
(* sequence number never decreases; whenever the mutex is free it equals   *)
(* the number of cache updates completed (one per successful decode, none  *)
(* lost), and while an update holds the mutex it is that number or one     *)
(* more; the element count, keypoint count and sequence number one         *)
(* accessor call returned were stored by the one update of that sequence   *)
(* number (or are the initial state), with element count = detections x    *)
(* (5 + 3 x keypoint count).                                               *)
(***************************************************************************)
FromOneUpdate(g) ==
  \/ g.seq = 0 /\ g.count = 0 /\ g.kpts = 0
  \/ /\ g.seq \in 1..Len(updates)
     /\ g.kpts = updates[g.seq].kpts
     /\ g.count = updates[g.seq].dets * (5 + 3 * g.kpts)

CacheConsistent ==
  /\ mtx = 0 => g_pose_cache.seq = Len(updates)
  /\ g_pose_cache.seq \in {Len(updates), Len(updates) + 1}
  /\ mtx = 0 =>
       FromOneUpdate([seq |-> g_pose_cache.seq, kpts |-> g_pose_cache.kpts,
                      count |-> Len(g_pose_cache.flat)])
  /\ \A t \in Threads : got[t] # <<>> => FromOneUpdate(got[t])

Statics == {"dbg_geom", "debug_raw_printed", "debug_det_printed"}
AboutToRead(t, v) == pc[t] = v
AboutToWrite(t, v) == \E w \in Statics : v = w /\ pc[t] = "set_" \o w
StaticValue(v) ==
  IF v = "dbg_geom" THEN dbg_geom
  ELSE IF v = "debug_raw_printed" THEN debug_raw_printed
  ELSE debug_det_printed

C10_CacheIsTheOnlySharedState ==
  \A v \in Statics :
    /\ \A t, u \in Threads :
         (t # u /\ AboutToWrite(t, v)) => ~(AboutToRead(u, v) \/ AboutToWrite(u, v))
    /\ \A t \in Threads : AboutToRead(t, v) => StaticValue(v) = FALSE

(***************************************************************************)
(* C11 as claimed.  The tensor of the last call declares a rows of b       *)
(* fields, candidate-major.  When b is a field stride valid for the        *)
(* decoder's schema, the decoder recovers (a, b) from that tensor and from *)
(* the field-major encoding of the same rows, and decodes the same         *)
(* detections from both.                                                   *)
(***************************************************************************)
DeclaredRows(L) == IF L.numDims = 2 THEN L.d[1] ELSE L.d[2]
DeclaredFields(L) == IF L.numDims = 2 THEN L.d[2] ELSE L.d[3]

\* the same rows declared and stored the other way round
Transposed(L) ==
  LET a == DeclaredRows(L)
      b == DeclaredFields(L)
  IN [L EXCEPT
        !.d = IF L.numDims = 2 THEN <<b, a, 0>> ELSE <<L.d[1], b, a>>,
        !.data = [idx \in 1..(a * b) |->
                    L.data[((idx - 1) % a) * b + ((idx - 1) \div a) + 1]]]

ValidStride(b) ==
  IF IsObb THEN b - 6 >= 1
  ELSE IF IsPose THEN FittingGuesses(b) # {}
  ELSE b >= 6 /\ (b - 6) % 3 = 0

\* what the configured decoder makes of layer L: the pair it recovers and
\* the detections of its rows before suppression
DecodeOutcome(L) ==
  IF IsObb
  THEN LET lay == ObbLayout(L)
       IN [n |-> lay.N, stride |-> lay.D,
           found |-> Accepted(ObbRows(L, net, lay))]
  ELSE IF IsPose
  THEN LET lay == PoseLayout(L)
           sch == InferSchema(lay.dim)
       IN IF ~sch.ok THEN [n |-> lay.num_preds, stride |-> lay.dim, found |-> "failure"]
          ELSE [n |-> lay.num_preds, stride |-> lay.dim,
                found |-> Accepted(PoseRows(L, lay, sch, Geometry(net, env)))]
  ELSE LET lay == Yolo26Layout(L)
       IN IF ~lay.ok THEN [n |-> 0, stride |-> 0, found |-> "failure"]
          ELSE [n |-> lay.num_preds, stride |-> lay.stride,
                found |-> Accepted(Yolo26Rows(L, lay, params, Geometry(net, env)))]

C11_LayoutRoundTrip ==
  (ret # "none" /\ Len(layers) > 0 /\ TheLayer.hasBuffer
     /\ TheLayer.numDims \in {2, 3} /\ DeclaredRows(TheLayer) >= 1
     /\ ValidStride(DeclaredFields(TheLayer))) =>
    /\ DecodeOutcome(TheLayer).n = DeclaredRows(TheLayer)
    /\ DecodeOutcome(TheLayer).stride = DeclaredFields(TheLayer)
    /\ DecodeOutcome(Transposed(TheLayer)) = DecodeOutcome(TheLayer)

(***************************************************************************)
(* C12 as claimed.  Compact pose layout: when both declared dimensions     *)
(* (d0, d1 at rank 2; d1, d2 at rank 3) satisfy d >= 6 and (d - 6)         *)
(* divisible by 3, the larger is the candidate count and the smaller the   *)
(* field stride, in whichever position they are declared.                  *)
(***************************************************************************)
BothPlausible == \A d \in Y26Dims : d >= 6 /\ (d - 6) % 3 = 0
LargerDim == CHOOSE d \in Y26Dims : \A e \in Y26Dims : e <= d
SmallerDim == CHOOSE d \in Y26Dims : \A e \in Y26Dims : d <= e

C12_LargerIsCandidateCount ==
  (IsYolo26 /\ ret # "none" /\ Len(layers) > 0 /\ TheLayer.hasBuffer
     /\ TheLayer.numDims \in {2, 3} /\ BothPlausible) =>
    /\ Returned("true")
    /\ Len(rowres) = LargerDim
    /\ Yolo26Layout(TheLayer).num_preds = LargerDim
    /\ Yolo26Layout(TheLayer).stride = SmallerDim
    /\ g_pose_cache.kpts = (SmallerDim - 6) \div 3

(***************************************************************************)
(* C13 as claimed.  Every detection of a pose decoder, legacy or compact,  *)
(* has x1 <= x2 and y1 <= y2, whether its row was read as center+size or   *)
(* as a corner pair, negative sizes and reversed corners included.         *)
(***************************************************************************)
Canonical(d) == d.x1 <= d.x2 /\ d.y1 <= d.y2

C13_CanonicalCorners ==
  ((IsPose \/ IsYolo26) /\ Returned("true")) =>
    \A i \in 1..Len(dets) : Canonical(dets[i])

\* the compact decoder, which takes the minimum and maximum of the corners
C13_Yolo26Canonical ==
  (IsYolo26 /\ Returned("true")) => \A i \in 1..Len(dets) : Canonical(dets[i])

(***************************************************************************)
(* C14.  Pose decoders, source frame of at least 1 x 1: every box corner   *)
(* and every keypoint x/y of an emitted detection, in the output list and  *)
(* in the result cache, lies in [0, sourceWidth-1] x [0, sourceHeight-1];  *)
(* every keypoint of the row is kept, whatever its score, and the score is *)
(* the row's raw score.                                                    *)
(***************************************************************************)
SourceW == IF env.w.set THEN env.w.val * PX ELSE net.width * PX
SourceH == IF env.h.set THEN env.h.val * PX ELSE net.height * PX
InFrame(x, y) == 0 <= x /\ x <= SourceW - PX /\ 0 <= y /\ y <= SourceH - PX

\* the keypoint count of the last call and the field its keypoints start at
KptsOfCall ==
  IF IsPose THEN InferSchema(PoseDim).kpts
  ELSE (Yolo26Layout(TheLayer).stride - 6) \div 3
RawKpField(i, c) ==
  IF IsPose THEN PoseField(i, 5 + InferSchema(PoseDim).nc + c)
  ELSE Y26Field(i, 6 + c)

KeypointsInFrame(kp, n) ==
  /\ Len(kp) = 3 * n
  /\ \A k \in 0..(n - 1) : InFrame(kp[3 * k + 1], kp[3 * k + 2])

CacheKpts(i) ==
  SubSeq(g_pose_cache.flat, (i - 1) * CacheStride + 6, i * CacheStride)

C14_InsideSourceFrame ==
  ((IsPose \/ IsYolo26) /\ Returned("true") /\ SourceW >= PX /\ SourceH >= PX) =>
    /\ \A i \in 1..Len(rowres) :
         rowres[i].ok =>
           /\ InFrame(rowres[i].det.x1, rowres[i].det.y1)
           /\ InFrame(rowres[i].det.x2, rowres[i].det.y2)
           /\ KeypointsInFrame(rowres[i].det.kpts, KptsOfCall)
           /\ \A k \in 0..(KptsOfCall - 1) :
                rowres[i].det.kpts[3 * k + 3] = RawKpField(i, 3 * k + 2)
    /\ \A i \in 1..Len(objects) :
         /\ InFrame(objects[i].left, objects[i].top)
         /\ InFrame(ObjX2(objects[i]), ObjY2(objects[i]))
    /\ g_pose_cache.kpts = KptsOfCall
    /\ \A i \in 1..CacheCount :
         /\ InFrame(CacheDet(i).x1, CacheDet(i).y1)
         /\ InFrame(CacheDet(i).x2, CacheDet(i).y2)
         /\ KeypointsInFrame(CacheKpts(i), KptsOfCall)
         /\ \E j \in 1..Len(rowres) :
              rowres[j].ok /\ rowres[j].det.kpts = CacheKpts(i)

\* a detection emitted and cached whose raw keypoint lay outside the frame on
\* both axes and whose keypoint score is below every threshold
C14_Witness ==
  /\ (IsPose \/ IsYolo26) /\ Returned("true") /\ CacheCount > 0
  /\ \E i \in 1..Len(rowres) :
       /\ rowres[i].ok /\ KptsOfCall > 0
       /\ RawKpField(i, 0) < 0 /\ RawKpField(i, 1) > SourceH
       /\ rowres[i].det.kpts[1] = 0 /\ rowres[i].det.kpts[2] = SourceH - PX
       /\ RawKpField(i, 2) < 0 /\ rowres[i].det.kpts[3] = RawKpField(i, 2)
       /\ CacheKpts(1) = rowres[i].det.kpts

(***************************************************************************)
(* C15 as claimed.  Oriented-box and legacy pose suppressor: run again,    *)
(* with the same threshold, on the list it returned, it returns exactly    *)
(* that list: same detections, same order, nothing further suppressed.     *)
(***************************************************************************)
Suppressed(ds) == IF IsObb THEN NmsObb(ds, iou_thr) ELSE NmsPose(ds, iou_thr)

\* the lists a run of the suppressor on `ds` may return
SuppressorOutcomes(ds) == {Kept(s, Suppressed(s)) : s \in SortOutcomes(ds)}

\* the list the last call's suppressor returned
ReturnedList == Kept(dets, rem)

C15_SuppressorIdempotent ==
  ((IsObb \/ IsPose) /\ Returned("true")) =>
    SuppressorOutcomes(ReturnedList) = {ReturnedList}

\* what a second run does keep: every detection, in some confidence order
C15_SecondRunKeepsAll ==
  ((IsObb \/ IsPose) /\ Returned("true")) =>
    \A again \in SuppressorOutcomes(ReturnedList) :
      /\ IsPermutation(again, ReturnedList)
      /\ \A i \in 1..(Len(again) - 1) : again[i].conf >= again[i + 1].conf

(***************************************************************************)
(* C16.  Every decoder, every declared shape it accepts: each element      *)
(* index the call read in the tensor buffer is >= 0 and smaller than       *)
(* candidateCount x fieldStride, the declared element count of one batch   *)
(* item.                                                                   *)
(***************************************************************************)
DeclaredCount == DeclaredRows(TheLayer) * DeclaredFields(TheLayer)

C16_ReadsInsideDeclaredTensor ==
  Returned("true") => \A idx \in reads : 0 <= idx /\ idx < DeclaredCount

\* a call that read the last declared element: of a field-major tensor of
\* several rows (legacy pose), as the last keypoint score of a candidate-major
\* row (compact pose), or together with every other element (oriented boxes)
C16_Witness ==
  /\ Returned("true") /\ DeclaredCount > 0 /\ (DeclaredCount - 1) \in reads
  /\ IsPose => PoseLayout(TheLayer).channel_major /\ DeclaredRows(TheLayer) > 1
  /\ IsYolo26 => ~Yolo26Layout(TheLayer).channel_major
  /\ IsObb => Cardinality(reads) = DeclaredCount

(***************************************************************************)
(* C17 as claimed.  While a caller of the accessor reads through the       *)
(* pointer it was given, with (count, keypoint count, seq), the buffer     *)
(* behind the pointer has not been rewritten and holds the `count`         *)
(* flattened values of update number seq, whatever the other threads do.   *)
(***************************************************************************)
C17_PointerStaysValid ==
  \A t \in Threads :
    (pc[t] = "acc_use" /\ got[t].data = "flat.data()") =>
      /\ got[t].seq = Len(updates)
      /\ \A u \in Threads : pc[u] # "upd_flat"
      /\ g_pose_cache.flat = updates[got[t].seq].flat
      /\ Len(g_pose_cache.flat) = got[t].count

====
